---- MODULE Spec2Model ----
(***************************************************************************)
(* Job orchestration of the kinetic-typography renderer: enqueue_job and   *)
(* worker_loop (app.py), process_job (motion_pipeline.py), the two cached  *)
(* engines (transcribe.py, beat_analysis.py) and the Job / Media rows      *)
(* (models.py).                                                            *)
(*                                                                         *)
(* The specifications share the same state and actions:                    *)
(*   Spec       the program by itself: request threads calling enqueue_job *)
(*              and the single worker thread;                              *)
(*   SpecDel    Spec plus an external deletion of Job rows, and the        *)
(*              branches of the worker that only a missing row can take;   *)
(*   SpecCrash  Spec plus a crash and restart of the process.              *)
(* SpecLive and SpecCrashLive add the scheduling of the worker thread to   *)
(* Spec and SpecCrash.                                                     *)
(***************************************************************************)
EXTENDS Integers, Sequences, FiniteSets, TLC

\* Number of enqueue_job calls explored.
MaxJobs == 2

\* Concurrent request threads calling enqueue_job.
Producers == {"t1", "t2"}

\* Projects whose jobs are submitted; the audio file of each (the paths a
\* caller passes to enqueue_job are the project's own, app.py 223-225, 265-269).
Projects == {1, 2, 3}

AudioPath(project) ==
    CASE project = 1 -> "uploads/p1/a.mp3"
      [] project = 2 -> "uploads/p2/a.mp3"
      [] OTHER       -> "uploads/p3/b.mp3"

\* The bytes stored at each audio path: projects 1 and 2 hold byte-identical audio.
FileBytes(path) ==
    CASE path = "uploads/p1/a.mp3" -> "bytesA"
      [] path = "uploads/p2/a.mp3" -> "bytesA"
      [] OTHER                     -> "bytesB"

\* The values _unique_id returns: datetime.now() cut to the second (the local
\* wall clock, which may repeat a second) and four random characters. Nothing
\* ties either part to the job, so two calls can return the same value.
Uids == {"u1", "u2"}

Null == "NULL"

JobIds == 1..MaxJobs

VARIABLES
    jobs,        \* the jobs table: id -> row
    medias,      \* the media table, in insertion order
    queue,       \* JOB_QUEUE's items
    unfinished,  \* JOB_QUEUE.unfinished_tasks
    prod,        \* per request thread: the id committed but not yet put (0: none)
    wpc,         \* the worker thread's position in worker_loop / process_job
    wPct,        \* the percentage handed to the running progress callback
    cur,         \* worker_loop's job_id (0: none)
    attached,    \* whether `job` is still a persistent object of the worker's session
    wAudio,      \* process_job's audio_path
    wHash,       \* process_job's audio_hash
    wUid,        \* process_job's uid
    wErr,        \* the exception caught at `except Exception as e`
    wExc,        \* an exception propagating out of the loop body
    segCache,    \* cache/segments_<hash>.json, per fingerprint
    beatsCache,  \* cache/beats_<hash>.json, per fingerprint
    wsSeg,       \* BASE_DIR/segments.json
    wsBeats,     \* BASE_DIR/beats.json
    manimOut,    \* the newest FarsiKinetic.* under media/videos/motion
    outFiles,    \* outputs/final_<uid>.mp4: the job whose composite wrote it last
    putLog,      \* history: the identifiers put on the queue, in order
    runLog,      \* history: the identifiers set to running, in order
    transCalls,  \* history: model.transcribe invocations per fingerprint
    beatCalls    \* history: librosa beat_track invocations per fingerprint

vars == <<jobs, medias, queue, unfinished, prod, wpc, wPct, cur, attached,
          wAudio, wHash, wUid, wErr, wExc, segCache, beatsCache, wsSeg,
          wsBeats, manimOut, outFiles, putLog, runLog, transCalls, beatCalls>>

storeVars  == <<jobs, medias>>
queueVars  == <<queue, unfinished, putLog>>
localVars  == <<wPct, cur, attached, wAudio, wHash, wUid, wErr, wExc>>
cacheVars  == <<segCache, beatsCache, transCalls, beatCalls>>
fileVars   == <<wsSeg, wsBeats, manimOut, outFiles>>

----------------------------------------------------------------------------
\* Pure helpers

\* hashlib.md5 over the file's bytes: equal bytes, equal digest.
HashFile(path) ==
    IF FileBytes(path) = "bytesA" THEN "md5A" ELSE "md5B"

Fingerprints == {HashFile(AudioPath(p)) : p \in Projects}

Max(a, b) == IF a >= b THEN a ELSE b
Min(a, b) == IF a <= b THEN a ELSE b

\* The clamp with min and max exchanged.
ClampSwapped(percent) == Min(0, Max(100, percent))

\* progress_callback's clamp.
Clamp(percent) == Max(0, Min(100, percent))

\* The complete artifact each engine writes for given audio bytes.
Transcript(bytes) == <<"segments", bytes>>
Beats(bytes)      == <<"beats", bytes>>
\* A file opened for writing whose json.dump has not finished.
Partial == <<"partial">>
NoFile  == <<"absent">>

\* f"final_{uid}.mp4" under output_dir.
FinalPath(uid) == <<"outputs/final", uid>>

\* SQLite's rowid for a new row: one more than the largest present.
RECURSIVE MaxOf(_)
MaxOf(S) ==
    IF S = {} THEN 0
    ELSE LET x == CHOOSE y \in S : TRUE
         IN  Max(x, MaxOf(S \ {x}))

NewId == MaxOf(DOMAIN jobs) + 1

Present(id) == id \in DOMAIN jobs

Terminal == {"done", "error"}

----------------------------------------------------------------------------
Init ==
    /\ jobs = <<>>
    /\ medias = <<>>
    /\ queue = <<>>
    /\ unfinished = 0
    /\ prod = [t \in Producers |-> 0]
    /\ wpc = "get"
    /\ wPct = 0
    /\ cur = 0
    /\ attached = FALSE
    /\ wAudio = Null
    /\ wHash = Null
    /\ wUid = Null
    /\ wErr = Null
    /\ wExc = Null
    /\ segCache = [h \in Fingerprints |-> NoFile]
    /\ beatsCache = [h \in Fingerprints |-> NoFile]
    /\ wsSeg = NoFile
    /\ wsBeats = NoFile
    /\ manimOut = NoFile
    /\ outFiles = [u \in Uids |-> 0]
    /\ putLog = <<>>
    /\ runLog = <<>>
    /\ transCalls = [h \in Fingerprints |-> 0]
    /\ beatCalls = [h \in Fingerprints |-> 0]

----------------------------------------------------------------------------
\* enqueue_job, in its two effects: the committed INSERT, then the put.

NewJob(project) ==
    [project |-> project, audio |-> AudioPath(project), status |-> "queued",
     progress |-> 0, output |-> Null, error |-> Null]

\* enqueue_job without db.commit(): the row stays in the request's session,
\* invisible to the worker's.
EnqueueNoCommit(t, project) ==
    /\ prod[t] = 0
    /\ NewId <= MaxJobs
    /\ prod' = [prod EXCEPT ![t] = NewId]
    /\ UNCHANGED <<storeVars, queueVars, wpc, localVars, cacheVars, fileVars,
                   runLog>>

EnqueueCommit(t, project) ==
    /\ prod[t] = 0
    /\ NewId <= MaxJobs
    /\ jobs' = (NewId :> NewJob(project)) @@ jobs
    /\ prod' = [prod EXCEPT ![t] = NewId]
    /\ UNCHANGED <<medias, queueVars, wpc, localVars, cacheVars, fileVars, runLog>>

\* enqueue_job with a second JOB_QUEUE.put(job.id).
EnqueuePutTwice(t) ==
    /\ prod[t] # 0
    /\ queue' = Append(Append(queue, prod[t]), prod[t])
    /\ unfinished' = unfinished + 2
    /\ putLog' = Append(Append(putLog, prod[t]), prod[t])
    /\ prod' = [prod EXCEPT ![t] = 0]
    /\ UNCHANGED <<storeVars, wpc, localVars, cacheVars, fileVars, runLog>>

\* The put of a queue built with maxsize = 1: it waits while the queue is full.
EnqueuePutBounded(t) ==
    /\ prod[t] # 0
    /\ Len(queue) < 1
    /\ queue' = Append(queue, prod[t])
    /\ unfinished' = unfinished + 1
    /\ putLog' = Append(putLog, prod[t])
    /\ prod' = [prod EXCEPT ![t] = 0]
    /\ UNCHANGED <<storeVars, wpc, localVars, cacheVars, fileVars, runLog>>

EnqueuePut(t) ==
    /\ prod[t] # 0
    /\ queue' = Append(queue, prod[t])
    /\ unfinished' = unfinished + 1
    /\ putLog' = Append(putLog, prod[t])
    /\ prod' = [prod EXCEPT ![t] = 0]
    /\ UNCHANGED <<storeVars, wpc, localVars, cacheVars, fileVars, runLog>>

----------------------------------------------------------------------------
\* worker_loop: the queue side

\* A pop from the right end of the deque.
GetIndexLast(q) == Len(q)

\* queue.Queue.get pops the leftmost item of its deque.
GetIndex(q) == 1

RemoveAt(q, i) == [k \in 1..(Len(q) - 1) |-> IF k < i THEN q[k] ELSE q[k + 1]]

\* queue.Queue.task_done raises ValueError when the counter would go below zero.
TaskDoneRaises(n) == n - 1 < 0

\* The exception of a stage with no handler around process_job: it leaves the
\* loop and the thread ends.
RaiseKills(e) ==
    /\ wpc' = "dead"
    /\ wErr' = e

\* An exception raised inside `try: process_job(...)` reaches `except Exception as e`.
Raise(e) ==
    /\ wpc' = "except"
    /\ wErr' = e

\* _update(p, msg): process_job calls the progress callback.
Update(p) ==
    /\ wpc' = "cb_get"
    /\ wPct' = p

\* process_job with the beat stage left out: the renderer follows _update(35).
AfterUpdateSkipsBeats(p) ==
    CASE p = 5  -> "hash"
      [] p = 15 -> "seg"
      [] p = 35 -> "render"
      [] p = 55 -> "render"
      [] p = 80 -> "overlay"
      [] OTHER  -> "store"

\* The statement of process_job that follows _update(p, ...).
AfterUpdate(p) ==
    CASE p = 5  -> "hash"
      [] p = 15 -> "seg"
      [] p = 35 -> "beats"
      [] p = 55 -> "render"
      [] p = 80 -> "overlay"
      [] OTHER  -> "store"

\* job_id = JOB_QUEUE.get()
W_Get ==
    /\ wpc = "get"
    /\ queue # <<>>
    /\ cur' = queue[GetIndex(queue)]
    /\ queue' = RemoveAt(queue, GetIndex(queue))
    /\ wpc' = "load"
    /\ UNCHANGED <<storeVars, unfinished, putLog, prod, wPct, attached, wAudio,
                   wHash, wUid, wErr, wExc, cacheVars, fileVars, runLog>>

\* job = db.get(Job, job_id); if not job: task_done(); close(); continue
\* (the `continue` leaves through the finally clause).
W_Load ==
    /\ wpc = "load"
    /\ IF Present(cur)
       THEN /\ wpc' = "start"
            /\ attached' = TRUE
            /\ UNCHANGED <<unfinished, wExc>>
       ELSE /\ wpc' = "finally"
            /\ attached' = FALSE
            /\ IF TaskDoneRaises(unfinished)
               THEN /\ wExc' = "ValueError"
                    /\ UNCHANGED unfinished
               ELSE /\ unfinished' = unfinished - 1
                    /\ UNCHANGED wExc
    /\ UNCHANGED <<storeVars, queue, putLog, prod, wPct, cur, wAudio, wHash,
                   wUid, wErr, cacheVars, fileVars, runLog>>

StartProgress == 5
DoneProgress  == 100
ErrorProgress == 0

\* status = "running", progress = 5, commit. The UPDATE of a row that is gone
\* raises StaleDataError outside the inner try.
W_Start ==
    /\ wpc = "start"
    /\ IF Present(cur)
       THEN /\ jobs' = [jobs EXCEPT ![cur].status = "running",
                                    ![cur].progress = StartProgress]
            /\ runLog' = Append(runLog, cur)
            /\ wpc' = "args"
            /\ UNCHANGED wExc
       ELSE /\ wExc' = "StaleDataError"
            /\ wpc' = "finally"
            /\ UNCHANGED <<jobs, runLog>>
    /\ UNCHANGED <<medias, queueVars, prod, wPct, cur, attached, wAudio, wHash,
                   wUid, wErr, cacheVars, fileVars>>

\* The arguments of process_job: job.audio_path refreshes the expired row
\* (ObjectDeletedError when it is gone); then os.makedirs and _update(5, ...).
W_Args ==
    /\ wpc = "args"
    /\ IF Present(cur)
       THEN /\ wAudio' = jobs[cur].audio
            /\ Update(5)
            /\ UNCHANGED wErr
       ELSE /\ Raise("ObjectDeletedError")
            /\ UNCHANGED <<wAudio, wPct>>
    /\ UNCHANGED <<storeVars, queueVars, prod, cur, attached, wHash, wUid, wExc,
                   cacheVars, fileVars, runLog>>

\* progress_callback: j = db.get(Job, job_id); if not j: return
\* (a row found gone is dropped from the session and the callback returns).
CbGet ==
    /\ wpc = "cb_get"
    /\ IF Present(cur)
       THEN /\ wpc' = "cb_commit"
            /\ UNCHANGED attached
       ELSE /\ wpc' = AfterUpdate(wPct)
            /\ attached' = FALSE
    /\ UNCHANGED <<storeVars, queueVars, prod, wPct, cur, wAudio, wHash, wUid,
                   wErr, wExc, cacheVars, fileVars, runLog>>

\* progress_callback: j.progress = max(0, min(100, int(percent))); commit.
CbCommit ==
    /\ wpc = "cb_commit"
    /\ IF Present(cur)
       THEN /\ jobs' = [jobs EXCEPT ![cur].progress = Clamp(wPct)]
            /\ wpc' = AfterUpdate(wPct)
            /\ UNCHANGED wErr
       ELSE /\ Raise("StaleDataError")
            /\ UNCHANGED jobs
    /\ UNCHANGED <<medias, queueVars, prod, wPct, cur, attached, wAudio, wHash,
                   wUid, wExc, cacheVars, fileVars, runLog>>

----------------------------------------------------------------------------
\* process_job: the stages

\* audio_hash = _hash_file(audio_path)
HashOk ==
    /\ wpc = "hash"
    /\ wHash' = HashFile(wAudio)
    /\ Update(15)
    /\ UNCHANGED <<storeVars, queueVars, prod, cur, attached, wAudio, wUid, wErr,
                   wExc, cacheVars, fileVars, runLog>>

\* A failure of the read that first truncates the workspace's segments.json.
HashFailTruncates ==
    /\ wpc = "hash"
    /\ Raise("OSError: audio")
    /\ wsSeg' = Partial
    /\ UNCHANGED <<storeVars, queueVars, prod, wPct, cur, attached, wAudio, wHash,
                   wUid, wExc, cacheVars, wsBeats, manimOut, outFiles, runLog>>

\* open(path, "rb") fails: the audio file cannot be read.
HashFail ==
    /\ wpc = "hash"
    /\ Raise("OSError: audio")
    /\ UNCHANGED <<storeVars, queueVars, prod, wPct, cur, attached, wAudio, wHash,
                   wUid, wExc, cacheVars, fileVars, runLog>>

\* A lookup under a name the cache never holds.
SegCachedNever(h) == FALSE

\* os.path.exists(seg_cache)
SegCached(h) == segCache[h] # NoFile

\* A hit that copies the beats cache file to segments.json.
SegHitWrongFile ==
    /\ wpc = "seg"
    /\ SegCached(wHash)
    /\ wsSeg' = beatsCache[wHash]
    /\ Update(35)
    /\ UNCHANGED <<storeVars, queueVars, prod, cur, attached, wAudio, wHash, wUid,
                   wErr, wExc, cacheVars, wsBeats, manimOut, outFiles, runLog>>

\* Cache hit: shutil.copy(seg_cache, segments.json).
SegHit ==
    /\ wpc = "seg"
    /\ SegCached(wHash)
    /\ wsSeg' = segCache[wHash]
    /\ Update(35)
    /\ UNCHANGED <<storeVars, queueVars, prod, cur, attached, wAudio, wHash, wUid,
                   wErr, wExc, cacheVars, wsBeats, manimOut, outFiles, runLog>>

\* Cache miss: transcribe_audio raises in load_model / model.transcribe, before
\* it opens out_path.
SegFail ==
    /\ wpc = "seg"
    /\ ~SegCached(wHash)
    /\ transCalls' = [transCalls EXCEPT ![wHash] = @ + 1]
    /\ Raise("transcribe failed")
    /\ UNCHANGED <<storeVars, queueVars, prod, wPct, cur, attached, wAudio, wHash,
                   wUid, wExc, segCache, beatsCache, beatCalls, fileVars, runLog>>

\* Cache miss: model.transcribe returned and open(out_path, "w") created the file
\* at the cache path itself.
SegOpen ==
    /\ wpc = "seg"
    /\ ~SegCached(wHash)
    /\ transCalls' = [transCalls EXCEPT ![wHash] = @ + 1]
    /\ segCache' = [segCache EXCEPT ![wHash] = Partial]
    /\ wpc' = "seg_write"
    /\ UNCHANGED <<storeVars, queueVars, prod, localVars, beatsCache, beatCalls,
                   fileVars, runLog>>

\* The miss path without shutil.copy(seg_cache, segments.json).
SegDumpNoPublish ==
    /\ wpc = "seg_write"
    /\ segCache' = [segCache EXCEPT ![wHash] = Transcript(FileBytes(wAudio))]
    /\ Update(35)
    /\ UNCHANGED <<storeVars, queueVars, prod, cur, attached, wAudio, wHash, wUid,
                   wErr, wExc, beatsCache, transCalls, beatCalls, fileVars,
                   runLog>>

\* json.dump finished and the file is closed; shutil.copy(seg_cache, segments.json).
SegDump ==
    /\ wpc = "seg_write"
    /\ segCache' = [segCache EXCEPT ![wHash] = Transcript(FileBytes(wAudio))]
    /\ wsSeg' = Transcript(FileBytes(wAudio))
    /\ Update(35)
    /\ UNCHANGED <<storeVars, queueVars, prod, cur, attached, wAudio, wHash, wUid,
                   wErr, wExc, beatsCache, transCalls, beatCalls, wsBeats,
                   manimOut, outFiles, runLog>>

\* os.path.exists(beats_cache)
BeatsCached(h) == beatsCache[h] # NoFile

BeatsHit ==
    /\ wpc = "beats"
    /\ BeatsCached(wHash)
    /\ wsBeats' = beatsCache[wHash]
    /\ Update(55)
    /\ UNCHANGED <<storeVars, queueVars, prod, cur, attached, wAudio, wHash, wUid,
                   wErr, wExc, cacheVars, wsSeg, manimOut, outFiles, runLog>>

BeatsFail ==
    /\ wpc = "beats"
    /\ ~BeatsCached(wHash)
    /\ beatCalls' = [beatCalls EXCEPT ![wHash] = @ + 1]
    /\ Raise("beat analysis failed")
    /\ UNCHANGED <<storeVars, queueVars, prod, wPct, cur, attached, wAudio, wHash,
                   wUid, wExc, segCache, beatsCache, transCalls, fileVars, runLog>>

BeatsOpen ==
    /\ wpc = "beats"
    /\ ~BeatsCached(wHash)
    /\ beatCalls' = [beatCalls EXCEPT ![wHash] = @ + 1]
    /\ beatsCache' = [beatsCache EXCEPT ![wHash] = Partial]
    /\ wpc' = "beats_write"
    /\ UNCHANGED <<storeVars, queueVars, prod, localVars, segCache, transCalls,
                   fileVars, runLog>>

\* shutil.move in place of shutil.copy: the artifact leaves the cache.
BeatsDumpMoves ==
    /\ wpc = "beats_write"
    /\ beatsCache' = [beatsCache EXCEPT ![wHash] = NoFile]
    /\ wsBeats' = Beats(FileBytes(wAudio))
    /\ Update(55)
    /\ UNCHANGED <<storeVars, queueVars, prod, cur, attached, wAudio, wHash, wUid,
                   wErr, wExc, segCache, transCalls, beatCalls, wsSeg, manimOut,
                   outFiles, runLog>>

BeatsDump ==
    /\ wpc = "beats_write"
    /\ beatsCache' = [beatsCache EXCEPT ![wHash] = Beats(FileBytes(wAudio))]
    /\ wsBeats' = Beats(FileBytes(wAudio))
    /\ Update(55)
    /\ UNCHANGED <<storeVars, queueVars, prod, cur, attached, wAudio, wHash, wUid,
                   wErr, wExc, segCache, transCalls, beatCalls, wsSeg, manimOut,
                   outFiles, runLog>>

\* _run_manim renders the workspace's segments.json and beats.json; then
\* uid = _unique_id() and the copy to manim_<uid>.
RenderOk(uid) ==
    /\ wpc = "render"
    /\ manimOut' = <<wsSeg, wsBeats>>
    /\ wUid' = uid
    /\ Update(80)
    /\ UNCHANGED <<storeVars, queueVars, prod, cur, attached, wAudio, wHash, wErr,
                   wExc, cacheVars, wsSeg, wsBeats, outFiles, runLog>>

\* subprocess.run(check=True) raises CalledProcessError, or no output is found.
RenderFail ==
    /\ wpc = "render"
    /\ Raise("manim failed")
    /\ UNCHANGED <<storeVars, queueVars, prod, wPct, cur, attached, wAudio, wHash,
                   wUid, wExc, cacheVars, fileVars, runLog>>

\* _overlay_video: ffmpeg -y writes final_<uid>.mp4.
OverlayOk ==
    /\ wpc = "overlay"
    /\ outFiles' = [outFiles EXCEPT ![wUid] = cur]
    /\ Update(100)
    /\ UNCHANGED <<storeVars, queueVars, prod, cur, attached, wAudio, wHash, wUid,
                   wErr, wExc, cacheVars, wsSeg, wsBeats, manimOut, runLog>>

OverlayFail ==
    /\ wpc = "overlay"
    /\ Raise("ffmpeg failed")
    /\ UNCHANGED <<storeVars, queueVars, prod, wPct, cur, attached, wAudio, wHash,
                   wUid, wExc, cacheVars, fileVars, runLog>>

----------------------------------------------------------------------------
\* worker_loop: the outcome of the job

NewMedia(job, path) ==
    [project |-> jobs[job].project, job |-> job, file |-> path, type |-> "video"]

\* W_Store without db.add(media).
W_StoreNoMedia ==
    /\ wpc = "store"
    /\ Present(cur)
    /\ jobs' = [jobs EXCEPT ![cur].status = "done",
                            ![cur].progress = DoneProgress,
                            ![cur].output = FinalPath(wUid)]
    /\ wpc' = "finally"
    /\ UNCHANGED <<medias, queueVars, prod, wPct, cur, attached, wAudio, wHash,
                   wUid, wErr, wExc, cacheVars, fileVars, runLog>>

\* W_Store without the assignment of job.output_path.
W_StoreNoOutput ==
    /\ wpc = "store"
    /\ Present(cur)
    /\ medias' = Append(medias, NewMedia(cur, FinalPath(wUid)))
    /\ jobs' = [jobs EXCEPT ![cur].status = "done",
                            ![cur].progress = DoneProgress]
    /\ wpc' = "finally"
    /\ UNCHANGED <<queueVars, prod, wPct, cur, attached, wAudio, wHash, wUid,
                   wErr, wExc, cacheVars, fileVars, runLog>>

\* process_job returned: Media(...) reads job.project_id (a refresh of the
\* expired row), db.add(media), status = "done", commit.
W_Store ==
    /\ wpc = "store"
    /\ IF Present(cur)
       THEN /\ medias' = Append(medias, NewMedia(cur, FinalPath(wUid)))
            /\ jobs' = [jobs EXCEPT ![cur].status = "done",
                                    ![cur].progress = DoneProgress,
                                    ![cur].output = FinalPath(wUid)]
            /\ wpc' = "finally"
            /\ UNCHANGED wErr
       ELSE /\ Raise(IF attached THEN "ObjectDeletedError"
                                 ELSE "DetachedInstanceError")
            /\ UNCHANGED storeVars
    /\ UNCHANGED <<queueVars, prod, wPct, cur, attached, wAudio, wHash, wUid,
                   wExc, cacheVars, fileVars, runLog>>

\* The handler without its db.commit(): nothing of it is persisted.
W_ExceptNoCommit ==
    /\ wpc = "except"
    /\ wpc' = "finally"
    /\ UNCHANGED <<storeVars, queueVars, prod, localVars, cacheVars, fileVars,
                   runLog>>

\* The handler without job.error = str(e).
W_ExceptNoDetail ==
    /\ wpc = "except"
    /\ wpc' = "finally"
    /\ Present(cur)
    /\ jobs' = [jobs EXCEPT ![cur].status = "error",
                            ![cur].progress = ErrorProgress]
    /\ UNCHANGED <<medias, queueVars, prod, localVars, cacheVars, fileVars,
                   runLog>>

\* except Exception as e: status = "error", progress = 0, error = str(e), commit.
\* With the row gone, the commit of a still persistent `job` raises
\* StaleDataError out of the handler; of a detached one it writes nothing.
W_Except ==
    /\ wpc = "except"
    /\ wpc' = "finally"
    /\ IF Present(cur)
       THEN /\ jobs' = [jobs EXCEPT ![cur].status = "error",
                                    ![cur].progress = ErrorProgress,
                                    ![cur].error = wErr]
            /\ UNCHANGED wExc
       ELSE /\ wExc' = IF attached THEN "StaleDataError" ELSE Null
            /\ UNCHANGED jobs
    /\ UNCHANGED <<medias, queueVars, prod, wPct, cur, attached, wAudio, wHash,
                   wUid, wErr, cacheVars, fileVars, runLog>>

\* finally: JOB_QUEUE.task_done(); db.close(). An exception that is propagating,
\* or the ValueError of task_done, leaves the `while True` and ends the thread.
W_Finally ==
    /\ wpc = "finally"
    /\ IF TaskDoneRaises(unfinished)
       THEN /\ wExc' = "ValueError"
            /\ wpc' = "dead"
            /\ UNCHANGED unfinished
       ELSE /\ unfinished' = unfinished - 1
            /\ wpc' = IF wExc # Null THEN "dead" ELSE "get"
            /\ UNCHANGED wExc
    /\ wPct' = 0
    /\ cur' = 0
    /\ attached' = FALSE
    /\ wAudio' = Null
    /\ wHash' = Null
    /\ wUid' = Null
    /\ wErr' = Null
    /\ UNCHANGED <<storeVars, queue, putLog, prod, cacheVars, fileVars, runLog>>

----------------------------------------------------------------------------
\* The environment

\* A Job row (and the Media rows of that job) is deleted by another connection.
\* The newest row is left alone, so that no identifier is handed out twice.
DeleteJob(j) ==
    /\ Present(j)
    /\ j # MaxOf(DOMAIN jobs)
    /\ jobs' = [i \in DOMAIN jobs \ {j} |-> jobs[i]]
    /\ medias' = SelectSeq(medias, LAMBDA m : m.job # j)
    /\ UNCHANGED <<queueVars, prod, wpc, localVars, cacheVars, fileVars, runLog>>

\* A start-up that puts the identifiers of all queued rows back on the queue.
CrashRequeues ==
    /\ queue' = SelectSeq([k \in 1..MaxJobs |-> k],
                          LAMBDA j : Present(j) /\ jobs[j].status = "queued")
    /\ unfinished' = Len(queue')
    /\ prod' = [t \in Producers |-> 0]
    /\ wpc' = "get"
    /\ wPct' = 0
    /\ cur' = 0
    /\ attached' = FALSE
    /\ wAudio' = Null
    /\ wHash' = Null
    /\ wUid' = Null
    /\ wErr' = Null
    /\ wExc' = Null
    /\ UNCHANGED <<storeVars, putLog, cacheVars, fileVars, runLog>>

\* The process dies and is started again: the queue, the request threads and
\* the worker start afresh; the database and the files stay.
Crash ==
    /\ queue' = <<>>
    /\ unfinished' = 0
    /\ prod' = [t \in Producers |-> 0]
    /\ wpc' = "get"
    /\ wPct' = 0
    /\ cur' = 0
    /\ attached' = FALSE
    /\ wAudio' = Null
    /\ wHash' = Null
    /\ wUid' = Null
    /\ wErr' = Null
    /\ wExc' = Null
    /\ UNCHANGED <<storeVars, putLog, cacheVars, fileVars, runLog>>

----------------------------------------------------------------------------
Producer ==
    \E t \in Producers :
        \/ \E project \in Projects : EnqueueCommit(t, project)
        \/ EnqueuePut(t)

Stage ==
    \/ HashOk \/ HashFail
    \/ SegHit \/ SegFail \/ SegOpen \/ SegDump
    \/ BeatsHit \/ BeatsFail \/ BeatsOpen \/ BeatsDump
    \/ (\E uid \in Uids : RenderOk(uid)) \/ RenderFail
    \/ OverlayOk \/ OverlayFail

Worker ==
    \/ W_Get \/ W_Load \/ W_Start \/ W_Args
    \/ CbGet \/ CbCommit
    \/ Stage
    \/ W_Store \/ W_Except \/ W_Finally

Next == Producer \/ Worker

Spec == Init /\ [][Next]_vars

NextDel == Next \/ (\E j \in JobIds : DeleteJob(j))

SpecDel == Init /\ [][NextDel]_vars

NextCrash == Next \/ Crash

SpecCrash == Init /\ [][NextCrash]_vars

----------------------------------------------------------------------------
\* Properties

Range(q) == {q[k] : k \in 1..Len(q)}

Running == {j \in DOMAIN jobs : jobs[j].status = "running"}

\* One step of job j's persisted progress: created at 0 and queued; while not
\* terminal it never decreases; it is 100 with done and 0 with error.
ProgressStep(j) ==
    /\ (~Present(j) /\ j \in DOMAIN jobs')
          => (jobs'[j].progress = 0 /\ jobs'[j].status = "queued")
    /\ (Present(j) /\ j \in DOMAIN jobs' /\ jobs[j].status \notin Terminal)
          => /\ jobs'[j].status \notin Terminal
                   => jobs'[j].progress >= jobs[j].progress
             /\ jobs'[j].status = "done" => jobs'[j].progress = 100
             /\ jobs'[j].status = "error" => jobs'[j].progress = 0

TerminalProgress ==
    \A j \in DOMAIN jobs :
        /\ jobs[j].status = "done" => jobs[j].progress = 100
        /\ jobs[j].status = "error" => jobs[j].progress = 0

\* C1: every job's persisted progress starts at 0 (queued), never decreases
\* through the worker's and the callback's updates until the job is terminal,
\* and is exactly 100 with status done and exactly 0 with status error.
C1_ProgressMonotone ==
    /\ []TerminalProgress
    /\ [][\A j \in JobIds : ProgressStep(j)]_vars

\* A job that went through every milestone to done, and another that ended in error.
C1_Witness ==
    \E i, j \in DOMAIN jobs :
        /\ jobs[i].status = "done" /\ jobs[i].progress = 100
        /\ jobs[j].status = "error" /\ jobs[j].progress = 0

\* Every job started before the latest one is terminal, and at most one is running.
Serialized ==
    /\ Cardinality(Running) <= 1
    /\ \A k \in 1..(Len(runLog) - 1) :
          Present(runLog[k]) /\ jobs[runLog[k]].status \in Terminal

\* A step changes no row other than that of the job the worker holds.
OnlyCurrentWritten ==
    \A j \in DOMAIN jobs \cap DOMAIN jobs' : jobs'[j] # jobs[j] => j = cur

\* C4: status transitions of successive jobs never interleave: a job is set to
\* running only after every job started before it is done or error, at most one
\* row is running at any time, and every update of a row is of the worker's
\* current job.
C4_NoInterleaving ==
    /\ []Serialized
    /\ [][OnlyCurrentWritten]_vars

\* The second job is running after the first one ended.
C4_Witness ==
    /\ Len(runLog) = 2
    /\ jobs[runLog[1]].status \in Terminal
    /\ jobs[runLog[2]].status = "running"
    /\ jobs[runLog[2]].progress = 35

\* C5: jobs are set to running in exactly the order in which their identifiers
\* were put on the queue, whatever their identifiers (and creation order).
C5_Fifo ==
    /\ Len(runLog) <= Len(putLog)
    /\ \A k \in 1..Len(runLog) : runLog[k] = putLog[k]

\* Two request threads put their jobs in the reverse of creation order, the
\* second while the worker was already running the first put.
C5_Witness ==
    /\ putLog = <<2, 1>>
    /\ runLog = <<2, 1>>

\* C8: a job whose pipeline failed is persisted with status error, progress 0,
\* the failure's description as error detail, no output path, and no Media row.
C8_FailurePersisted ==
    /\ (wpc = "finally" /\ wErr # Null)
          => (Present(cur) /\ jobs[cur].status = "error"
              /\ jobs[cur].error = wErr)
    /\ \A j \in DOMAIN jobs :
          jobs[j].status = "error"
             => /\ jobs[j].progress = 0
                /\ jobs[j].error \notin {Null, ""}
                /\ jobs[j].output = Null
                /\ \A k \in 1..Len(medias) : medias[k].job # j

\* The renderer failed and the handler has committed.
C8_Witness ==
    /\ wpc = "finally"
    /\ wErr = "manim failed"
    /\ jobs[cur].status = "error"

\* C10: for every Job row, the output path is set exactly when the status is done.
C10_OutputIffDone ==
    \A j \in DOMAIN jobs : (jobs[j].output # Null) <=> (jobs[j].status = "done")

\* One job done with its output path, another in error without one.
C10_Witness ==
    \E i, j \in DOMAIN jobs :
        /\ jobs[i].status = "done" /\ jobs[i].output = FinalPath("u1")
        /\ jobs[j].status = "error" /\ jobs[j].output = Null

\* The worker thread is scheduled, and every engine invocation returns or
\* raises: a step of the worker that stays possible is eventually taken.
SpecLive == Spec /\ WF_vars(Worker)

\* C3: no failure of a job ends the worker loop, and every job waiting in the
\* queue while a job's failure is being handled later leaves the queued status.
C3_FailureDoesNotBlock ==
    /\ [](wpc # "dead")
    /\ \A j \in JobIds :
          (wpc = "except" /\ j \in Range(queue))
             ~> (Present(j) /\ jobs[j].status # "queued")

\* The first job ended in error at the renderer and the job behind it was started.
C3_Witness ==
    /\ Len(runLog) = 2
    /\ jobs[runLog[1]].status = "error"
    /\ jobs[runLog[1]].error = "manim failed"
    /\ jobs[runLog[2]].status # "queued"

Fingerprint(j) == HashFile(jobs[j].audio)

\* Job i was started before job j.
RanBefore(i, j) ==
    \E a, b \in 1..Len(runLog) : a < b /\ runLog[a] = i /\ runLog[b] = j

\* Jobs i and j are the only started jobs with their fingerprint.
OnlyPair(i, j) ==
    \A k \in Range(runLog) :
        (Present(k) /\ Fingerprint(k) = Fingerprint(i)) => k \in {i, j}

\* C7 as stated: two handled jobs with byte-identical audio, the second of them
\* done, caused exactly one invocation of each engine.
C7_ExactlyOneInvocation ==
    \A i, j \in DOMAIN jobs :
        (/\ RanBefore(i, j)
         /\ Fingerprint(i) = Fingerprint(j)
         /\ OnlyPair(i, j)
         /\ jobs[i].status \in Terminal
         /\ jobs[j].status = "done")
            => (transCalls[Fingerprint(i)] = 1 /\ beatCalls[Fingerprint(i)] = 1)

\* Two handled jobs with byte-identical audio, the first of them done, caused
\* exactly one invocation of each engine.
OneInvocationAfterSuccess ==
    \A i, j \in DOMAIN jobs :
        (/\ RanBefore(i, j)
         /\ Fingerprint(i) = Fingerprint(j)
         /\ OnlyPair(i, j)
         /\ jobs[i].status = "done"
         /\ jobs[j].status \in Terminal)
            => (transCalls[Fingerprint(i)] = 1 /\ beatCalls[Fingerprint(i)] = 1)

\* No engine is invoked for a fingerprint whose artifact is in the cache.
NoInvocationOnceCached ==
    \A h \in Fingerprints :
        /\ segCache[h] # NoFile => transCalls'[h] = transCalls[h]
        /\ beatsCache[h] # NoFile => beatCalls'[h] = beatCalls[h]

\* C7, amended: once an engine has written the artifact of a fingerprint to the
\* cache, no later job with byte-identical audio invokes that engine; two jobs
\* with byte-identical audio cause exactly one invocation of each engine when
\* the first of them completes.
C7_OneInvocationOnceCached ==
    /\ []OneInvocationAfterSuccess
    /\ [][NoInvocationOnceCached]_vars

\* Projects 1 and 2 hold the same bytes under different paths: both jobs are
\* done after one invocation of each engine.
C7_Witness ==
    /\ Len(runLog) = 2
    /\ jobs[runLog[1]].audio # jobs[runLog[2]].audio
    /\ Fingerprint(runLog[1]) = Fingerprint(runLog[2])
    /\ jobs[runLog[1]].status = "done"
    /\ jobs[runLog[2]].status = "done"
    /\ transCalls[Fingerprint(runLog[1])] = 1
    /\ beatCalls[Fingerprint(runLog[1])] = 1

\* The worker is leaving the loop body after it found no row for `cur`.
AbsentDiscard ==
    /\ wpc = "finally"
    /\ cur # 0
    /\ ~Present(cur)
    /\ ~attached
    /\ wErr = Null

\* C2: an identifier without a Job row is discarded without a change to any
\* row and without an exception, and the worker goes back to the queue.
C2_AbsentIdDiscarded ==
    [][/\ (wpc = "load" /\ ~Present(cur) /\ wpc' # wpc)
             => (UNCHANGED storeVars /\ wExc' = Null)
       /\ (AbsentDiscard /\ wpc' # wpc) => wpc' = "get"]_vars

\* The pipeline has ended, by its return or by the failure of a stage, and the
\* row of the job it ran was deleted between two progress callbacks.
EndedWithoutRow ==
    /\ wpc \in {"store", "except"}
    /\ wAudio # Null
    /\ wErr # "StaleDataError"
    /\ ~Present(cur)

\* C9: with the row of the running job deleted, a progress callback changes
\* nothing and returns, and the end of the pipeline (success or failure)
\* raises nothing out of the loop body.
C9_DeletionTolerated ==
    [][/\ (wpc = "cb_get" /\ ~Present(cur) /\ wpc' # wpc)
             => (UNCHANGED storeVars /\ wpc' = AfterUpdate(wPct))
       /\ EndedWithoutRow => wExc' = Null]_vars

\* C6: a lookup that finds a cache file for the fingerprint finds the complete
\* artifact of that audio, also after a crash of the process.
C6_NoPartialCacheHit ==
    /\ (wpc = "seg" /\ SegCached(wHash))
          => segCache[wHash] = Transcript(FileBytes(wAudio))
    /\ (wpc = "beats" /\ BeatsCached(wHash))
          => beatsCache[wHash] = Beats(FileBytes(wAudio))

----------------------------------------------------------------------------
\* C11: for every Job row, the error detail is set exactly when the status is
\* error.
C11_ErrorDetailIffError ==
    \A j \in DOMAIN jobs : (jobs[j].error # Null) <=> (jobs[j].status = "error")

\* A failed job carrying its detail beside a finished one carrying none.
C11_Witness ==
    \E i, j \in DOMAIN jobs :
        /\ jobs[i].status = "error" /\ jobs[i].error = "manim failed"
        /\ jobs[j].status = "done" /\ jobs[j].error = Null

----------------------------------------------------------------------------
\* The Media rows that reference job j.
MediaOf(j) == {k \in 1..Len(medias) : medias[k].job = j}

MediaMatchesJob ==
    \A j \in DOMAIN jobs :
        /\ Cardinality(MediaOf(j)) = IF jobs[j].status = "done" THEN 1 ELSE 0
        /\ \A k \in MediaOf(j) :
              /\ medias[k].type = "video"
              /\ medias[k].project = jobs[j].project
              /\ medias[k].file = jobs[j].output

\* The media table changes exactly in the commit that makes a job done.
MediaWithDone ==
    (medias' # medias) <=>
        (\E j \in DOMAIN jobs : jobs[j].status # "done" /\ jobs'[j].status = "done")

\* C12: a job has one Media row when it is done and none otherwise; the row is
\* inserted in the commit that sets the job done and carries type "video", the
\* job's identifier and project, and the job's output path as its file path.
C12_OneMediaPerDoneJob == []MediaMatchesJob /\ [][MediaWithDone]_vars

\* Two finished jobs, each with its own Media row.
C12_Witness ==
    /\ Len(medias) = 2
    /\ \A j \in JobIds : Present(j) /\ jobs[j].status = "done"

----------------------------------------------------------------------------
\* The uid of the output file a finished job recorded.
UidOf(j) == CHOOSE u \in Uids : jobs[j].output = FinalPath(u)

\* C13: any two jobs that are done have distinct output paths, and the output
\* file a done job's Media row names was last written by that job itself.
C13_DistinctOutputs ==
    /\ \A i, j \in DOMAIN jobs :
          (i # j /\ jobs[i].status = "done" /\ jobs[j].status = "done")
             => jobs[i].output # jobs[j].output
    /\ \A j \in DOMAIN jobs :
          jobs[j].status = "done" => outFiles[UidOf(j)] = j

----------------------------------------------------------------------------
\* The running job has not got past _hash_file.
UpToFingerprint ==
    \/ wpc \in {"start", "args", "hash"}
    \/ wpc \in {"cb_get", "cb_commit"} /\ wPct = 5

AudioUnreadable == wErr = "OSError: audio"

\* C14: a job whose audio cannot be read fails at _hash_file: from its start to
\* the end of its handling no engine, renderer or compositor has run and the
\* artifact cache and the workspace files are as they were, and the job is
\* persisted as failed.
C14_UnreadableAudioTouchesNothing ==
    [][/\ (UpToFingerprint \/ AudioUnreadable)
             => UNCHANGED <<cacheVars, fileVars>>
       /\ (wpc = "hash" /\ wpc' = "except") => AudioUnreadable'
       /\ (wpc = "except" /\ AudioUnreadable /\ wpc' # wpc)
             => (jobs'[cur].status = "error" /\ medias' = medias)]_vars

\* The second job failed on its audio after the first one had filled the cache
\* and the workspace.
C14_Witness ==
    /\ wpc = "finally"
    /\ AudioUnreadable
    /\ jobs[cur].status = "error"
    /\ \E h \in Fingerprints : SegCached(h) /\ BeatsCached(h)
    /\ wsSeg # NoFile
    /\ manimOut # NoFile

----------------------------------------------------------------------------
\* C15: a job whose identifier was dequeued and whose row exists is eventually
\* persisted as done or error before the worker lets go of it, and no job
\* stays running forever: a running row is always the one the worker is
\* processing (every engine invocation returns or raises, and the worker
\* thread is scheduled).
C15_JobTerminates ==
    /\ (wpc = "load" /\ Present(cur))
          ~> (wpc = "finally" /\ Present(cur) /\ jobs[cur].status \in Terminal)
    /\ [](\A j \in Running :
             cur = j /\ wpc \notin {"get", "load", "start", "finally", "dead"})
    /\ [][wpc \notin {"get", "finally"} => cur' = cur]_vars

\* A job that got as far as the compositor has been persisted as failed, with
\* the next job waiting.
C15_Witness ==
    /\ wpc = "finally"
    /\ Present(cur)
    /\ jobs[cur].status = "error"
    /\ jobs[cur].error = "ffmpeg failed"
    /\ queue # <<>>

----------------------------------------------------------------------------
\* The INSERT of request thread t: one new row, queued, progress 0, no output
\* path, no error detail; nothing else of the store or the queue changes.
CreatesQueuedRow(t) ==
    (prod[t] = 0 /\ prod'[t] # 0) =>
        /\ ~Present(prod'[t])
        /\ DOMAIN jobs' = DOMAIN jobs \cup {prod'[t]}
        /\ \A j \in DOMAIN jobs : jobs'[j] = jobs[j]
        /\ jobs'[prod'[t]].status = "queued"
        /\ jobs'[prod'[t]].progress = 0
        /\ jobs'[prod'[t]].output = Null
        /\ jobs'[prod'[t]].error = Null
        /\ UNCHANGED <<medias, queue>>

\* The put of request thread t: the identifier of its own row, at the tail.
PutsOwnId(t) ==
    (prod[t] # 0 /\ prod'[t] = 0) =>
        /\ queue' = Append(queue, prod[t])
        /\ putLog' = Append(putLog, prod[t])
        /\ UNCHANGED storeVars

\* The put is possible in every state, and no identifier is put twice.
PutNeverWaits ==
    /\ \A t \in Producers : prod[t] # 0 => ENABLED EnqueuePut(t)
    /\ \A a, b \in 1..Len(putLog) : a # b => putLog[a] # putLog[b]
    /\ \A t \in Producers : prod[t] # 0 => prod[t] \notin Range(putLog)

\* C16: enqueue_job persists one new row with status queued, progress 0, no
\* output path and no error detail, then appends that row's identifier once
\* to the tail of the queue and returns, in whatever state the worker is.
C16_EnqueueCreatesAndPuts ==
    /\ []PutNeverWaits
    /\ [][\A t \in Producers : CreatesQueuedRow(t) /\ PutsOwnId(t)]_vars

\* The second job was created and put while the worker was rendering the first.
C16_Witness ==
    /\ wpc = "render"
    /\ cur = 1
    /\ putLog = <<1, 2>>
    /\ queue = <<2>>
    /\ jobs[2].status = "queued"
    /\ \A t \in Producers : prod[t] = 0

----------------------------------------------------------------------------
\* C17: once a job is done (it was queued, then running), the cache holds the
\* transcript and the beat artifact of that job's audio fingerprint.
C17_DoneJobLeavesCacheEntries ==
    \A j \in DOMAIN jobs :
        jobs[j].status = "done" =>
            /\ j \in Range(putLog) /\ j \in Range(runLog)
            /\ segCache[Fingerprint(j)] = Transcript(FileBytes(jobs[j].audio))
            /\ beatsCache[Fingerprint(j)] = Beats(FileBytes(jobs[j].audio))

\* The first job on a fingerprint is done: each engine ran once for it and
\* the other fingerprint is still unseen.
C17_Witness ==
    \E j \in DOMAIN jobs :
        /\ jobs[j].status = "done"
        /\ runLog = <<j>>
        /\ transCalls[Fingerprint(j)] = 1
        /\ beatCalls[Fingerprint(j)] = 1
        /\ SegCached(Fingerprint(j)) /\ BeatsCached(Fingerprint(j))
        /\ \E h \in Fingerprints : ~SegCached(h) /\ ~BeatsCached(h)

----------------------------------------------------------------------------
\* A transcript cache file whose write has finished.
SegWritten(h) == segCache[h] \notin {NoFile, Partial}

\* The step of the transcript stage that finds the cache file and publishes it.
SegHitStep == wpc = "seg" /\ SegCached(wHash) /\ wpc' = "cb_get"

\* C18: the transcript a cache hit under fingerprint h publishes to the
\* workspace is the artifact the earlier compute wrote to the cache under h:
\* the file a finished write left is never rewritten, whatever jobs run in
\* between, and the hit publishes that file's content unchanged.
C18_HitDeliversWrittenTranscript ==
    [][/\ \A h \in Fingerprints : SegWritten(h) => segCache'[h] = segCache[h]
       /\ (wpc = "seg_write" /\ wpc' # wpc)
             => (SegWritten(wHash)' /\ wsSeg' = segCache'[wHash])
       /\ SegHitStep
             => (transCalls[wHash] >= 1 /\ wsSeg' = segCache[wHash])]_vars

\* The second job hit the entry the first job wrote, after its own read of the
\* same bytes under another path.
C18_Witness ==
    /\ runLog = <<1, 2>>
    /\ jobs[1].status = "done"
    /\ cur = 2
    /\ wpc = "cb_get" /\ wPct = 35
    /\ jobs[1].audio # jobs[2].audio
    /\ transCalls[wHash] = 1
    /\ wsSeg = Transcript(FileBytes(jobs[1].audio))

----------------------------------------------------------------------------
\* The milestone reported before the statement at position pc of process_job.
MilestoneOf(pc) ==
    CASE pc = "hash"                    -> 5
      [] pc \in {"seg", "seg_write"}     -> 15
      [] pc \in {"beats", "beats_write"} -> 35
      [] pc = "render"                  -> 55
      [] pc = "overlay"                 -> 80
      [] OTHER                          -> 100

StagePositions ==
    {"hash", "seg", "seg_write", "beats", "beats_write", "render", "overlay",
     "store"}

\* The positions at or after the stage that follows milestone p, callbacks
\* in flight included.
Reached(p) ==
    \/ wpc \in StagePositions /\ MilestoneOf(wpc) >= p
    \/ wpc \in {"cb_get", "cb_commit"} /\ wPct >= p

\* At each stage its milestone is the persisted progress, and the stages
\* before it have delivered their results for this job.
StagesInOrder ==
    /\ wpc \in StagePositions
          => (wPct = MilestoneOf(wpc) /\ jobs[cur].progress = MilestoneOf(wpc))
    /\ Reached(15) => wHash = HashFile(wAudio)
    /\ Reached(35)
          => (SegWritten(wHash) /\ wsSeg = segCache[wHash])
    /\ Reached(55)
          => (beatsCache[wHash] \notin {NoFile, Partial}
              /\ wsBeats = beatsCache[wHash])
    /\ Reached(80) => (wUid # Null /\ manimOut = <<wsSeg, wsBeats>>)
    /\ Reached(100) => outFiles[wUid] = cur

\* Each engine acts only at its own stage, and after a failure the worker goes
\* through its handler to the end of the job: nothing is invoked and no
\* milestone is reported.
StageEffects ==
    /\ wHash' # wHash => (wpc = "hash" \/ wpc = "finally")
    /\ (transCalls' # transCalls \/ segCache' # segCache \/ wsSeg' # wsSeg)
          => wpc \in {"seg", "seg_write"}
    /\ (beatCalls' # beatCalls \/ beatsCache' # beatsCache \/ wsBeats' # wsBeats)
          => wpc \in {"beats", "beats_write"}
    /\ manimOut' # manimOut => wpc = "render"
    /\ outFiles' # outFiles => wpc = "overlay"
    /\ (wpc = "except" /\ wpc' # wpc)
          => (wpc' = "finally" /\ jobs'[cur].progress = ErrorProgress)
    /\ (wpc = "finally" /\ wpc' # wpc)
          => (wpc' \in {"get", "dead"} /\ UNCHANGED storeVars)

\* C19: within a job the stages run in the order fingerprint, transcript,
\* beats, render, composite, each with its milestone (5, 15, 35, 55, 80, and
\* 100 on completion) persisted before it starts and with the results of all
\* earlier stages at hand; after the failure of a stage no later stage is
\* invoked and no later milestone is reported.
C19_StageOrder == []StagesInOrder /\ [][StageEffects]_vars

\* The beat engine failed after a computed transcript: the job is persisted as
\* failed and neither the renderer nor the compositor has ever run.
C19_Witness ==
    /\ wpc = "finally"
    /\ wErr = "beat analysis failed"
    /\ transCalls[wHash] = 1
    /\ jobs[cur].status = "error"
    /\ manimOut = NoFile
    /\ \A u \in Uids : outFiles[u] = 0

----------------------------------------------------------------------------
StatusMoves ==
    {<<"queued", "running">>, <<"running", "done">>, <<"running", "error">>}

\* One step of job j's row: its status moves along StatusMoves or stays, and a
\* row that is done or error is left as it is.
StatusStep(j) ==
    /\ j \in DOMAIN jobs'
    /\ jobs'[j].status # jobs[j].status
          => <<jobs[j].status, jobs'[j].status>> \in StatusMoves
    /\ jobs[j].status \in Terminal => jobs'[j] = jobs[j]

\* C20: a Job's status changes only from queued to running and from running
\* to done or to error; once it is done or error, no step of the worker, of a
\* progress callback or of a request thread changes its status, progress,
\* output path or error detail.
C20_StatusMachine == [][\A j \in DOMAIN jobs : StatusStep(j)]_vars

\* The first job is done while a progress callback of the second is about to
\* commit.
C20_Witness ==
    /\ Present(1)
    /\ jobs[1].status = "done"
    /\ jobs[1].progress = DoneProgress
    /\ cur = 2
    /\ wpc = "cb_commit"
    /\ wPct = 55

----------------------------------------------------------------------------
\* The workspace holds the two artifacts of the audio of the running job.
WorkspaceOfCurrentJob ==
    /\ wHash = Fingerprint(cur)
    /\ wsSeg = Transcript(FileBytes(jobs[cur].audio))
    /\ wsBeats = Beats(FileBytes(jobs[cur].audio))

\* C21: when _run_manim is invoked for a job, segments.json and beats.json of
\* the workspace are the artifacts of that job's audio fingerprint, and the
\* render is made of exactly these two, whatever jobs ran or failed before.
C21_RenderReadsOwnArtifacts ==
    /\ [](wpc = "render" => WorkspaceOfCurrentJob)
    /\ [][(wpc = "render" /\ wpc' = "cb_get")
             => manimOut' = <<Transcript(FileBytes(jobs[cur].audio)),
                              Beats(FileBytes(jobs[cur].audio))>>]_vars

\* The first job failed at the beat engine after publishing its transcript;
\* the second, on other audio, is at the renderer.
C21_Witness ==
    /\ runLog = <<1, 2>>
    /\ jobs[1].error = "beat analysis failed"
    /\ Fingerprint(1) # Fingerprint(2)
    /\ cur = 2
    /\ wpc = "render"
    /\ wsSeg = Transcript(FileBytes(jobs[2].audio))

----------------------------------------------------------------------------
\* The program with restarts, the worker thread of each run being scheduled.
SpecCrashLive == SpecCrash /\ WF_vars(Worker)

\* Job j is queued in the store while no thread holds its identifier and the
\* queue does not contain it.
Lost(j) ==
    /\ Present(j)
    /\ jobs[j].status = "queued"
    /\ jobs[j].progress = 0
    /\ j \notin Range(queue)
    /\ cur # j
    /\ \A t \in Producers : prod[t] # j

\* A restart seen from outside: the worker is at its first get again with no
\* request thread in flight, and nothing was put.
RestartStep ==
    /\ wpc # "finally"
    /\ wpc' = "get"
    /\ putLog' = putLog
    /\ prod' = [t \in Producers |-> 0]

\* A restart leaves the store as it is and the queue empty, so the queued
\* identifiers are lost; a lost job stays lost, its row unchanged.
LostForever ==
    /\ RestartStep
          => (jobs' = jobs /\ queue' = <<>>
              /\ \A j \in Range(queue) : Lost(j)')
    /\ \A j \in JobIds : Lost(j) => (Lost(j)' /\ jobs'[j] = jobs[j])

\* C22: after a restart a job whose identifier was on the queue is not put
\* back: it keeps status queued and progress 0 forever and is never run, while
\* an identifier put on the queue is run unless a restart loses it too.
C22_QueuedLostOnRestart ==
    /\ [][LostForever]_vars
    /\ [](\A j \in JobIds : Lost(j) => j \notin Running)
    /\ \A j \in JobIds :
          (j \in Range(queue))
             ~> ((Present(j) /\ jobs[j].status # "queued") \/ Lost(j))

\* Job 1 was on the queue at a restart and is still queued; job 2, created
\* afterwards, is done.
C22_Witness ==
    /\ putLog = <<1, 2>>
    /\ runLog = <<2>>
    /\ Lost(1)
    /\ jobs[2].status = "done"

----------------------------------------------------------------------------
\* The worker holds a dequeued identifier whose handling has not ended.
Handling == wpc \notin {"get", "dead"}

\* C23: one task_done per get on every path of the loop body: the unfinished
\* counter is the number of identifiers put minus the number whose handling
\* has ended, that is the ones waiting plus the one in hand, and task_done
\* never finds the counter at zero.
C23_OneTaskDonePerGet ==
    /\ unfinished = Len(queue) + (IF Handling THEN 1 ELSE 0)
    /\ wExc # "ValueError"

----------------------------------------------------------------------------
\* Every identifier on the queue, and the one the worker is about to load,
\* has its row in the store.
QueuedIdsHaveRows ==
    /\ \A j \in Range(queue) : Present(j)
    /\ wpc = "load" => Present(cur)

\* An identifier is put only when its row is already committed.
PutAfterCommit ==
    putLog' # putLog => Present(putLog'[Len(putLog')])

\* C24: with request threads running beside the worker, every identifier on
\* the queue names a row committed before the put, so the worker's load of a
\* dequeued identifier never misses a row that is being created.
C24_RowCommittedBeforePut == []QueuedIdsHaveRows /\ [][PutAfterCommit]_vars

\* The worker loads job 1 while a request thread has committed job 2 and not
\* yet put it.
C24_Witness ==
    /\ wpc = "load"
    /\ cur = 1
    /\ Present(2)
    /\ \E t \in Producers : prod[t] = 2
    /\ 2 \notin Range(putLog)

====
